---- MODULE Spec2Model ----
(***************************************************************************)
(* Extraction-quality evaluation engine of pdf-excel-extractor:            *)
(*   evaluation/ngram_inspector.py  (tokenize, ngrams, compare_ngrams)     *)
(*   evaluation/bleu_scorer.py      (bleu_score,                           *)
(*                                   evaluate_extraction_quality)          *)
(*                                                                         *)
(* Texts are sequences of one-character strings over Alphabet.  Python's   *)
(* None is the value None.  Floats are fixed-point integers in units of    *)
(* 1/SCALE, except ratios of two integers, which are kept as the pair      *)
(* [num, den] the code divides.                                            *)
(***************************************************************************)
EXTENDS Integers, Sequences, FiniteSets, TLC

VARIABLES pc,
          ref, hyp, n_max, report,
          reference, hypothesis, n_gram_max, weights, preserve_case, bleu,
          extracted, gold, now, eval_result, eval_prev,
          confidence_str,
          upload_file, env, JOBS, background, frame, files, response,
          document, scan_result, run, llm, pred, match_report

vars == <<pc, ref, hyp, n_max, report,
          reference, hypothesis, n_gram_max, weights, preserve_case, bleu,
          extracted, gold, now, eval_result, eval_prev,
          confidence_str,
          upload_file, env, JOBS, background, frame, files, response,
          document, scan_result, run, llm, pred, match_report>>

ngramVars == <<ref, hyp, n_max, report>>
bleuVars == <<reference, hypothesis, n_gram_max, weights, preserve_case, bleu>>
evalVars == <<extracted, gold, now, eval_result, eval_prev>>
formatVars == <<confidence_str>>
jobVars == <<upload_file, env, JOBS, background, frame, files, response>>
toolVars == <<document, scan_result, run, llm, pred, match_report>>

(***************************************************************************)
(* Bounds                                                                  *)
(***************************************************************************)
\* longest enumerated text, in characters
MaxLen == 3

(***************************************************************************)
(* Texts                                                                   *)
(***************************************************************************)
None == <<"<None>">>

\* the state of the operations that a specification does not run
FormatIdle == confidence_str = None
ToolsIdle ==
  /\ document = None /\ scan_result = None /\ run = None /\ llm = None
  /\ pred = None /\ match_report = None
JobIdle ==
  /\ upload_file = None /\ env = None /\ JOBS = <<>> /\ background = <<>>
  /\ frame = None /\ files = <<>> /\ response = None

\* a lower-case letter, an upper-case letter, whitespace, punctuation
Alphabet == {"a", "A", " ", ","}

Digits == {"0", "1", "2", "3", "4", "5", "6", "7", "8", "9"}

IsWord(c) == c \in {"a", "A"} \cup Digits
IsSpace(c) == c \in {" ", "\n"}

Min(a, b) == IF a < b THEN a ELSE b
Max(a, b) == IF a > b THEN a ELSE b

RECURSIVE TextsOfLen(_)
TextsOfLen(k) ==
  IF k = 0 THEN {<<>>}
  ELSE {Append(s, c) : s \in TextsOfLen(k - 1), c \in Alphabet}

ShortTexts == UNION {TextsOfLen(k) : k \in 0..MaxLen}

\* str.lower()
LowerChar(c) ==
  CASE c = "A" -> "a"
    [] c = "D" -> "d"
    [] c = "F" -> "f"
    [] c = "P" -> "p"
    [] OTHER -> c
Lower(s) == [i \in 1..Len(s) |-> LowerChar(s[i])]

\* str.strip(): drop leading and trailing whitespace
RECURSIVE LStrip(_)
LStrip(s) == IF s # <<>> /\ IsSpace(Head(s)) THEN LStrip(Tail(s)) ELSE s

RECURSIVE RStrip(_)
RStrip(s) ==
  IF s # <<>> /\ IsSpace(s[Len(s)]) THEN RStrip(SubSeq(s, 1, Len(s) - 1)) ELSE s

Strip(s) == RStrip(LStrip(s))

\* str.split(): maximal runs of non-whitespace characters
RECURSIVE SplitFrom(_, _, _)
SplitFrom(s, cur, acc) ==
  IF s = <<>> THEN (IF cur = <<>> THEN acc ELSE Append(acc, cur))
  ELSE IF IsSpace(Head(s))
       THEN SplitFrom(Tail(s), <<>>, IF cur = <<>> THEN acc ELSE Append(acc, cur))
       ELSE SplitFrom(Tail(s), Append(cur, Head(s)), acc)

Split(s) == SplitFrom(s, <<>>, <<>>)

\* " ".join(tokens)
RECURSIVE Join(_)
Join(toks) ==
  IF toks = <<>> THEN <<>>
  ELSE IF Len(toks) = 1 THEN toks[1]
  ELSE toks[1] \o <<" ">> \o Join(Tail(toks))

(***************************************************************************)
(* evaluation/ngram_inspector.py                                           *)
(***************************************************************************)
\* re.findall(r"\w+|[^\w\s]", text): a maximal run of word characters, or
\* one character that is neither a word character nor whitespace
RECURSIVE FindallFrom(_, _, _)
FindallFrom(s, cur, acc) ==
  IF s = <<>> THEN (IF cur = <<>> THEN acc ELSE Append(acc, cur))
  ELSE IF IsWord(Head(s))
       THEN FindallFrom(Tail(s), Append(cur, Head(s)), acc)
       ELSE LET flushed == IF cur = <<>> THEN acc ELSE Append(acc, cur)
            IN  IF IsSpace(Head(s))
                THEN FindallFrom(Tail(s), <<>>, flushed)
                ELSE FindallFrom(Tail(s), <<>>, Append(flushed, <<Head(s)>>))

tokenize(text) ==
  IF text = None THEN <<>> ELSE FindallFrom(Strip(text), <<>>, <<>>)

ngrams(tokens, n) ==
  IF n <= 0 THEN <<>>
  ELSE [i \in 1..Max(0, Len(tokens) - n + 1) |-> SubSeq(tokens, i, i + n - 1)]

\* collections.Counter: pairs <<element, count>> in first-insertion order
CounterGet(cnt, e) ==
  IF \E i \in 1..Len(cnt) : cnt[i][1] = e
  THEN LET i == CHOOSE j \in 1..Len(cnt) : cnt[j][1] = e IN cnt[i][2]
  ELSE 0

CounterHas(cnt, e) == \E i \in 1..Len(cnt) : cnt[i][1] = e

RECURSIVE CounterFrom(_, _)
CounterFrom(items, cnt) ==
  IF items = <<>> THEN cnt
  ELSE LET e == Head(items)
       IN  CounterFrom(Tail(items),
             IF CounterHas(cnt, e)
             THEN [i \in 1..Len(cnt) |->
                     IF cnt[i][1] = e THEN <<e, cnt[i][2] + 1>> ELSE cnt[i]]
             ELSE Append(cnt, <<e, 1>>))

Counter(items) == CounterFrom(items, <<>>)

RECURSIVE SumValues(_)
SumValues(cnt) == IF cnt = <<>> THEN 0 ELSE Head(cnt)[2] + SumValues(Tail(cnt))

\* Counter.__and__ without clipping: a shared element counts as often as it
\* occurs in b
RECURSIVE CounterAndUnclipped(_, _)
CounterAndUnclipped(a, b) ==
  IF a = <<>> THEN <<>>
  ELSE LET e == Head(a)[1]
           c == CounterGet(b, e)
       IN  IF c > 0 THEN <<(<<e, c>>)>> \o CounterAndUnclipped(Tail(a), b)
           ELSE CounterAndUnclipped(Tail(a), b)

\* Counter.__and__: minimum of the two counts, positive results only
RECURSIVE CounterAnd(_, _)
CounterAnd(a, b) ==
  IF a = <<>> THEN <<>>
  ELSE LET e == Head(a)[1]
           c == Min(Head(a)[2], CounterGet(b, e))
       IN  IF c > 0 THEN <<(<<e, c>>)>> \o CounterAnd(Tail(a), b)
           ELSE CounterAnd(Tail(a), b)

\* Counter.__sub__: a's count less b's, positive results only
RECURSIVE CounterSub(_, _)
CounterSub(a, b) ==
  IF a = <<>> THEN <<>>
  ELSE LET e == Head(a)[1]
           c == Head(a)[2] - CounterGet(b, e)
       IN  IF c > 0 THEN <<(<<e, c>>)>> \o CounterSub(Tail(a), b)
           ELSE CounterSub(Tail(a), b)

ngram_counts(text, n) == Counter(ngrams(tokenize(text), n))

\* an unstable insertion: an item goes before the items of equal count
RECURSIVE InsertByCountUnstable(_, _)
InsertByCountUnstable(sorted, x) ==
  IF sorted = <<>> THEN <<x>>
  ELSE IF Head(sorted)[2] > x[2]
       THEN <<Head(sorted)>> \o InsertByCountUnstable(Tail(sorted), x)
       ELSE <<x>> \o sorted

\* sorted(items, key=lambda x: -x[1]): a stable insertion sort by falling count
RECURSIVE InsertByCount(_, _)
InsertByCount(sorted, x) ==
  IF sorted = <<>> THEN <<x>>
  ELSE IF Head(sorted)[2] >= x[2]
       THEN <<Head(sorted)>> \o InsertByCount(Tail(sorted), x)
       ELSE <<x>> \o sorted

RECURSIVE SortByCountFrom(_, _)
SortByCountFrom(items, sorted) ==
  IF items = <<>> THEN sorted
  ELSE SortByCountFrom(Tail(items), InsertByCount(sorted, Head(items)))

SortByCountDesc(items) == SortByCountFrom(items, <<>>)

\* the [:10] slice of the sorted lists
TopK == 10

Truncate(items, k) == SubSeq(items, 1, Min(k, Len(items)))

\* a / b without the guard on b
RatioUnguarded(a, b) == [num |-> a, den |-> b]

\* a / b if b > 0 else 0.0, kept as the ratio the code divides
Ratio(a, b) == IF b > 0 THEN [num |-> a, den |-> b] ELSE [num |-> 0, den |-> 1]

NgramStat(r, h, n) ==
  LET ref_cnt == ngram_counts(r, n)
      hyp_cnt == ngram_counts(h, n)
      matches == SumValues(CounterAnd(ref_cnt, hyp_cnt))
      total_hyp == SumValues(hyp_cnt)
      missing_sorted == Truncate(SortByCountDesc(CounterSub(ref_cnt, hyp_cnt)), TopK)
      extra_sorted == Truncate(SortByCountDesc(CounterSub(hyp_cnt, ref_cnt)), TopK)
  IN  [matches |-> matches,
       total_hyp |-> total_hyp,
       precision |-> Ratio(matches, total_hyp),
       distinct_ref_ngrams |-> Len(ref_cnt),
       distinct_hyp_ngrams |-> Len(hyp_cnt),
       top_missing |-> [i \in 1..Len(missing_sorted) |->
                          <<Join(missing_sorted[i][1]), missing_sorted[i][2]>>],
       top_extra |-> [i \in 1..Len(extra_sorted) |->
                          <<Join(extra_sorted[i][1]), extra_sorted[i][2]>>]]

compare_ngrams(r, h, nmax) == [n \in 1..nmax |-> NgramStat(r, h, n)]

(***************************************************************************)
(* Floats of bleu_score: fixed point, 1.0 is SCALE                         *)
(***************************************************************************)
SCALE == 10000

\* math.log(2) in units of 1/SCALE
LN2 == 6931

\* math.log(smoothing) for the default smoothing = 1e-9, in units of 1/SCALE
LnSmoothing == -207233

\* sum of p/k for the odd k, p running through the odd powers of z
RECURSIVE AtanhSeries(_, _, _)
AtanhSeries(p, z2, k) ==
  IF p = 0 THEN 0 ELSE (p \div k) + AtanhSeries((p * z2) \div SCALE, z2, k + 2)

\* math.log(m / t) for 0 < m <= t, as -2 atanh((t - m) / (t + m))
Ln(m, t) ==
  LET z == ((t - m) * SCALE) \div (t + m)
  IN  0 - 2 * AtanhSeries(z, (z * z) \div SCALE, 1)

RECURSIVE Pow2(_)
Pow2(k) == IF k = 0 THEN 1 ELSE 2 * Pow2(k - 1)

RECURSIVE ExpSeries(_, _, _)
ExpSeries(term, r, j) ==
  IF term = 0 THEN 0 ELSE term + ExpSeries((term * r) \div (SCALE * j), r, j + 1)

\* math.exp(x): x = k ln 2 + r with 0 <= r < ln 2, exp(x) = 2^k exp(r)
Exp(x) ==
  LET k == x \div LN2
      r == x % LN2
      e == ExpSeries(SCALE, r, 1)
  IN  IF k >= 0 THEN e * Pow2(k)
      ELSE IF k < -30 THEN 0
      ELSE e \div Pow2(0 - k)

(***************************************************************************)
(* evaluation/bleu_scorer.py: bleu_score                                   *)
(***************************************************************************)
RECURSIVE SumSeq(_)
SumSeq(s) == IF s = <<>> THEN 0 ELSE Head(s) + SumSeq(Tail(s))

\* `not x` of a text or None
Falsy(x) == x = None \/ x = <<>>

\* the comparison of the exact-match shortcut left out
NeverEqual(comp_ref, comp_hyp) == FALSE

\* comp_ref == comp_hyp
ExactMatch(comp_ref, comp_hyp) == comp_ref = comp_hyp

\* no clamping of the product
Unclamped(x) == x

\* max(0.0, min(1.0, bleu))
Clamp(x) == Max(0, Min(SCALE, x))

\* matches and total_hyp of order n over the whitespace-split tokens
BleuCounts(rt, ht, n) ==
  LET ref_ngrams == Counter(ngrams(rt, n))
      hyp_ngrams == Counter(ngrams(ht, n))
  IN  [matches |-> SumValues(CounterAnd(hyp_ngrams, ref_ngrams)),
       total_hyp |-> SumValues(hyp_ngrams)]

\* math.log of the smoothed precision matches / total_hyp
LogPrecision(c) ==
  IF c.total_hyp > 0 /\ c.matches > 0 THEN Ln(c.matches, c.total_hyp)
  ELSE LnSmoothing

\* the argument weights: None, or a list of numbers in hundredths
NoWeights == [given |-> FALSE, list |-> <<>>]
Weights(list) == [given |-> TRUE, list |-> list]

Uniform(k) == [i \in 1..k |-> [num |-> 1, den |-> k]]

\* the weights w of the geometric mean, each the ratio the code divides
BleuWeights(ws, k) ==
  IF ws = NoWeights THEN Uniform(k)
  ELSE LET w_raw == SubSeq(ws.list, 1, Min(k, Len(ws.list)))
           s_w == SumSeq(w_raw)
       IN  IF s_w > 0 THEN [i \in 1..Len(w_raw) |-> [num |-> w_raw[i], den |-> s_w]]
           ELSE Uniform(k)

\* sum(wi * ls for wi, ls in zip(w, log_scores))
RECURSIVE WeightedLogSum(_, _)
WeightedLogSum(w, ls) ==
  IF w = <<>> \/ ls = <<>> THEN 0
  ELSE ((Head(w).num * Head(ls)) \div Head(w).den) + WeightedLogSum(Tail(w), Tail(ls))

BrevityPenalty(nhyp, nref) ==
  IF nhyp = 0 THEN 0
  ELSE IF nhyp < nref THEN Exp(((nhyp - nref) * SCALE) \div nhyp)
  ELSE SCALE

\* the return value of bleu_score together with the locals it was computed from
Returned(path, value) ==
  [path |-> path, ret |-> value, max_n |-> 0, counts |-> <<>>, w |-> <<>>, raw |-> value]

BleuTrace(r, h, ngmax, ws, keep_case) ==
  IF r = None \/ h = None
  THEN IF Falsy(r) /\ Falsy(h) THEN Returned("none_both_empty", SCALE)
       ELSE Returned("none_one_empty", 0)
  ELSE
    LET comp_ref == IF keep_case THEN Strip(r) ELSE Strip(Lower(r))
        comp_hyp == IF keep_case THEN Strip(h) ELSE Strip(Lower(h))
        rt == Split(comp_ref)
        ht == Split(comp_hyp)
    IN  IF ExactMatch(comp_ref, comp_hyp) THEN Returned("exact_match", SCALE)
        ELSE IF Len(rt) = 0 \/ Len(ht) = 0 THEN Returned("no_tokens", 0)
        ELSE
          LET max_n == Max(0, Min(ngmax, Min(Len(rt), Len(ht))))
              counts == [n \in 1..max_n |-> BleuCounts(rt, ht, n)]
              log_scores == [n \in 1..max_n |-> LogPrecision(counts[n])]
              w == IF max_n = 0 THEN <<>> ELSE BleuWeights(ws, max_n)
              geometric_mean ==
                IF max_n = 0 THEN 0 ELSE Exp(WeightedLogSum(w, log_scores))
              raw == (BrevityPenalty(Len(ht), Len(rt)) * geometric_mean) \div SCALE
          IN  [path |-> "computed", ret |-> Clamp(raw), max_n |-> max_n,
               counts |-> counts, w |-> w, raw |-> raw]

bleu_score(r, h, ngmax, ws, keep_case) == BleuTrace(r, h, ngmax, ws, keep_case).ret

(***************************************************************************)
(* difflib.SequenceMatcher(None, a, b).ratio()                             *)
(***************************************************************************)
\* length of the common run of a from i and b from j, within a[..ahi], b[..bhi]
RECURSIVE RunLen(_, _, _, _, _, _)
RunLen(a, i, ahi, b, j, bhi) ==
  IF i > ahi \/ j > bhi \/ a[i] # b[j] THEN 0
  ELSE 1 + RunLen(a, i + 1, ahi, b, j + 1, bhi)

\* find_longest_match: the longest block, the leftmost in a, then in b
LongestMatch(a, alo, ahi, b, blo, bhi) ==
  LET Blocks == {<<i, j>> : i \in alo..ahi, j \in blo..bhi}
      K(x) == RunLen(a, x[1], ahi, b, x[2], bhi)
      best == CHOOSE x \in Blocks :
                \A y \in Blocks :
                  \/ K(x) > K(y)
                  \/ K(x) = K(y) /\ x[1] < y[1]
                  \/ K(x) = K(y) /\ x[1] = y[1] /\ x[2] <= y[2]
  IN  [i |-> best[1], j |-> best[2], k |-> K(best)]

\* get_matching_blocks: characters in the blocks found left and right of
\* the longest one
RECURSIVE MatchedChars(_, _, _, _, _, _)
MatchedChars(a, alo, ahi, b, blo, bhi) ==
  IF alo > ahi \/ blo > bhi THEN 0
  ELSE LET m == LongestMatch(a, alo, ahi, b, blo, bhi)
       IN  IF m.k = 0 THEN 0
           ELSE m.k + MatchedChars(a, alo, m.i - 1, b, blo, m.j - 1)
                    + MatchedChars(a, m.i + m.k, ahi, b, m.j + m.k, bhi)

\* matches / length, without the factor 2.0
SequenceRatioHalved(a, b) ==
  IF Len(a) + Len(b) = 0 THEN [num |-> 1, den |-> 1]
  ELSE [num |-> MatchedChars(a, 1, Len(a), b, 1, Len(b)), den |-> Len(a) + Len(b)]

\* 2.0 * matches / length if length else 1.0
SequenceRatio(a, b) ==
  IF Len(a) + Len(b) = 0 THEN [num |-> 1, den |-> 1]
  ELSE [num |-> 2 * MatchedChars(a, 1, Len(a), b, 1, Len(b)), den |-> Len(a) + Len(b)]

(***************************************************************************)
(* evaluation/bleu_scorer.py: evaluate_extraction_quality                  *)
(***************************************************************************)
\* a dict as pairs <<key, value>> in first-insertion order; d[k] = v
DictHas(d, k) == \E i \in 1..Len(d) : d[i][1] = k

DictGet(d, k) == LET i == CHOOSE j \in 1..Len(d) : d[j][1] = k IN d[i][2]

DictSet(d, k, v) ==
  IF DictHas(d, k)
  THEN [i \in 1..Len(d) |-> IF d[i][1] = k THEN <<k, v>> ELSE d[i]]
  ELSE Append(d, <<k, v>>)

\* {row['key']: row['value'] for row in gold if row.get('value')}
RECURSIVE GoldDictFrom(_, _)
GoldDictFrom(rows, d) ==
  IF rows = <<>> THEN d
  ELSE GoldDictFrom(Tail(rows),
         IF Falsy(Head(rows).value) THEN d
         ELSE DictSet(d, Head(rows).key, Head(rows).value))

GoldDict(rows) == GoldDictFrom(rows, <<>>)

\* the argument gold: None, or a list of rows
NoGold == [given |-> FALSE, rows |-> <<>>]
Gold(rows) == [given |-> TRUE, rows |-> rows]

\* `if gold:` of None or a list
GoldGiven(g) == g.given /\ g.rows # <<>>

\* only the tokens that the reference lacks altogether count as extra
InsertionRatioOnlyNew(r, value) ==
  LET rt == Split(Lower(r))
      ht == Split(Lower(value))
  IN  Ratio(Cardinality({i \in 1..Len(ht) : \A j \in 1..Len(rt) : rt[j] # ht[i]}),
            Len(ht))

\* extra / sum(hyp_tokens.values()) over the lower-cased whitespace tokens
InsertionRatio(r, value) ==
  LET ref_tokens == Counter(Split(Lower(r)))
      hyp_tokens == Counter(Split(Lower(value)))
  IN  Ratio(SumValues(CounterSub(hyp_tokens, ref_tokens)), SumValues(hyp_tokens))

\* a float or ratio that may be None
Absent == [present |-> FALSE]
Some(x) == [present |-> TRUE, value |-> x]

\* the locals of the loop over the extracted rows
EvalStart ==
  [scores |-> <<>>, field_scores |-> <<>>, non_empty_count |-> 0,
   seq_scores |-> <<>>, insertion_ratios |-> <<>>, raised |-> "none"]

\* weights=[0.05,0.15,0.4,0.4] of evaluate_extraction_quality, in hundredths
GoldWeights == Weights(<<5, 15, 40, 40>>)

\* one iteration of the loop of the gold branch
GoldStep(st, row, gold_dict) ==
  IF ~DictHas(gold_dict, row.key) THEN st
  ELSE IF row.value = None THEN [st EXCEPT !.raised = "TypeError"]
  ELSE
    LET r == DictGet(gold_dict, row.key)
        score == bleu_score(r, row.value, 4, GoldWeights, TRUE)
        seq_ratio == SequenceRatio(r, row.value)
        insertion_ratio == InsertionRatio(r, row.value)
    IN  [st EXCEPT
           !.scores = Append(@, score),
           !.seq_scores = Append(@, seq_ratio),
           !.insertion_ratios = Append(@, insertion_ratio),
           !.field_scores = DictSet(@, row.key,
              [bleu |-> Some(score), seq_ratio |-> Some(seq_ratio),
               insertion_ratio |-> Some(insertion_ratio),
               exact_match |-> (r = row.value),
               extracted |-> row.value, gold |-> r]),
           !.non_empty_count = IF Falsy(row.value) THEN @ ELSE @ + 1]

\* the branch without gold reporting its 1.0 / 0.0 as the field's BLEU
SelfStepScored(st, row) ==
  [st EXCEPT
     !.scores = Append(@, IF Falsy(row.value) THEN 0 ELSE SCALE),
     !.non_empty_count = IF Falsy(row.value) THEN @ ELSE @ + 1,
     !.field_scores = DictSet(@, row.key,
        [bleu |-> Some(IF Falsy(row.value) THEN 0 ELSE SCALE),
         seq_ratio |-> Absent, insertion_ratio |-> Absent,
         exact_match |-> ~Falsy(row.value), extracted |-> row.value])]

\* one iteration of the loop of the branch without gold
SelfStep(st, row) ==
  [st EXCEPT
     !.scores = Append(@, IF Falsy(row.value) THEN 0 ELSE SCALE),
     !.non_empty_count = IF Falsy(row.value) THEN @ ELSE @ + 1,
     !.field_scores = DictSet(@, row.key,
        [bleu |-> Absent, seq_ratio |-> Absent, insertion_ratio |-> Absent,
         exact_match |-> ~Falsy(row.value), extracted |-> row.value])]

RECURSIVE EvalLoop(_, _, _, _)
EvalLoop(st, rows, with_gold, gold_dict) ==
  IF rows = <<>> \/ st.raised # "none" THEN st
  ELSE EvalLoop(IF with_gold THEN GoldStep(st, Head(rows), gold_dict)
                ELSE SelfStep(st, Head(rows)),
                Tail(rows), with_gold, gold_dict)

RECURSIVE MaxSeq(_)
MaxSeq(s) == IF Len(s) = 1 THEN s[1] ELSE Max(s[1], MaxSeq(Tail(s)))

RECURSIVE MinSeq(_)
MinSeq(s) == IF Len(s) = 1 THEN s[1] ELSE Min(s[1], MinSeq(Tail(s)))

\* the number of distinct keys in place of the number of rows
DistinctKeys(rows) == Cardinality({rows[i].key : i \in 1..Len(rows)})

\* len(extracted)
TotalFields(rows) == Len(rows)

evaluate_extraction_quality(rows, g, clock) ==
  LET with_gold == GoldGiven(g)
      st == EvalLoop(EvalStart, rows, with_gold,
                     IF with_gold THEN GoldDict(g.rows) ELSE <<>>)
      total_fields == TotalFields(rows)
      scored == with_gold /\ st.scores # <<>>
  IN  IF st.raised # "none" THEN [status |-> "raised", error |-> st.raised]
      ELSE
        [status |-> "returned",
         avg_bleu |-> IF ~with_gold THEN Absent
                      ELSE IF scored THEN Some(SumSeq(st.scores) \div Len(st.scores))
                      ELSE Some(0),
         max_bleu |-> IF ~with_gold THEN Absent
                      ELSE IF scored THEN Some(MaxSeq(st.scores)) ELSE Some(0),
         min_bleu |-> IF ~with_gold THEN Absent
                      ELSE IF scored THEN Some(MinSeq(st.scores)) ELSE Some(0),
         coverage |-> Ratio(st.non_empty_count, total_fields),
         total_fields |-> Len(rows),
         non_empty_fields |-> st.non_empty_count,
         field_scores |-> st.field_scores,
         timestamp |-> clock]

(***************************************************************************)
(* Inputs of compare_ngrams                                                *)
(***************************************************************************)
Word(k) ==
  CASE k = 1 -> <<"a">>
    [] k = 2 -> <<"A">>
    [] k = 3 -> <<"a", "a">>
    [] k = 4 -> <<"a", "A">>
    [] k = 5 -> <<"A", "a">>
    [] k = 6 -> <<"A", "A">>
    [] k = 7 -> <<"a", "a", "a">>
    [] k = 8 -> <<"a", "a", "A">>
    [] k = 9 -> <<"a", "A", "a">>
    [] k = 10 -> <<"a", "A", "A">>
    [] k = 11 -> <<"A", "a", "a">>
    [] OTHER -> <<"A", "A", "A">>

Words(ks) == [i \in 1..Len(ks) |-> Word(ks[i])]

\* texts with more than TopK distinct n-grams, some of them repeated
LongTexts ==
  { Join(Words(<<1, 2, 3, 4, 5, 6, 7, 8, 9, 10, 11, 12>>)),
    Join(Words(<<1, 2, 3, 3, 4, 5, 6, 7, 7, 7, 8, 9, 10, 11, 12, 12>>)) \o <<",">>,
    Join(Words(<<12, 1, 12, 1, 12>>)) }

NgramTexts == ShortTexts \cup LongTexts \cup {None}

DefaultNMax == 4

NMaxChoices == {0, DefaultNMax}

NoReport == <<>>

InitNgram ==
  /\ pc = "compare_ngrams"
  /\ ref \in NgramTexts
  /\ hyp \in NgramTexts
  /\ n_max \in NMaxChoices
  /\ report = NoReport
  /\ reference = None /\ hypothesis = None /\ n_gram_max = 0
  /\ weights = NoWeights /\ preserve_case = FALSE /\ bleu = None
  /\ extracted = <<>> /\ gold = NoGold /\ now = 0 /\ eval_result = None
  /\ eval_prev = None /\ FormatIdle /\ JobIdle /\ ToolsIdle

CompareNgrams ==
  /\ pc = "compare_ngrams"
  /\ report' = compare_ngrams(ref, hyp, n_max)
  /\ pc' = "compare_ngrams_done"
  /\ UNCHANGED <<ref, hyp, n_max, bleuVars, evalVars, formatVars, jobVars, toolVars>>

NextNgram == CompareNgrams

SpecNgram == InitNgram /\ [][NextNgram]_vars

NgramDone == pc = "compare_ngrams_done"

\* occurrences of x in the sequence s
Occ(s, x) == Cardinality({i \in 1..Len(s) : s[i] = x})

Range(s) == {s[i] : i \in 1..Len(s)}

RECURSIVE SumOver(_, _, _)
SumOver(S, a, b) ==
  IF S = {} THEN 0
  ELSE LET g == CHOOSE x \in S : TRUE
       IN  Min(Occ(a, g), Occ(b, g)) + SumOver(S \ {g}, a, b)

RefGrams(n) == ngrams(tokenize(ref), n)
HypGrams(n) == ngrams(tokenize(hyp), n)

\* C4: for every order n, matches is the sum over the distinct n-grams of the
\* smaller of the n-gram's count in the reference and its count in the
\* hypothesis.
C4_ClippedMatches ==
  NgramDone =>
    \A n \in 1..n_max :
      report[n].matches =
        SumOver(Range(RefGrams(n)) \cup Range(HypGrams(n)), RefGrams(n), HypGrams(n))

\* an n-gram twice in the hypothesis and once in the reference contributes 1
C4_Witness ==
  /\ NgramDone
  /\ \E n \in 1..n_max :
       /\ Cardinality(Range(HypGrams(n))) = 1
       /\ \E g \in Range(HypGrams(n)) :
            Occ(HypGrams(n), g) = 2 /\ Occ(RefGrams(n), g) = 1
       /\ report[n].matches = 1

\* C5: for every order n, 0 <= matches <= total_hyp and the precision is
\* matches/total_hyp within [0,1]; with fewer than n hypothesis tokens
\* total_hyp is 0 and the precision is exactly 0, with no zero denominator.
C5_PrecisionBounded ==
  NgramDone =>
    \A n \in 1..n_max :
      LET st == report[n]
      IN  /\ 0 <= st.matches /\ st.matches <= st.total_hyp
          /\ st.precision.den > 0
          /\ 0 <= st.precision.num /\ st.precision.num <= st.precision.den
          /\ st.total_hyp > 0 => st.precision = [num |-> st.matches, den |-> st.total_hyp]
          /\ Len(tokenize(hyp)) < n =>
               st.total_hyp = 0 /\ st.precision = [num |-> 0, den |-> 1]

C5_Witness ==
  /\ NgramDone
  /\ n_max >= 2
  /\ Len(tokenize(hyp)) = 1
  /\ report[1].matches = 1
  /\ report[2].total_hyp = 0 /\ report[2].precision.num = 0

\* position at which the n-gram shown as `joined` is first seen among the
\* n-grams gs of a text
FirstSeen(gs, joined) ==
  CHOOSE i \in 1..Len(gs) :
    /\ Join(gs[i]) = joined
    /\ \A j \in 1..(i - 1) : Join(gs[j]) # joined

\* neighbours in order imply every pair in order: counts never rise, so two
\* entries with equal counts have only equal counts between them
RankedFrom(top, text, n) ==
  LET gs == ngrams(tokenize(text), n)
  IN  /\ Len(top) <= 10
      /\ \A i \in 1..(Len(top) - 1) :
           /\ top[i][2] >= top[i + 1][2]
           /\ top[i][2] = top[i + 1][2] =>
                FirstSeen(gs, top[i][1]) < FirstSeen(gs, top[i + 1][1])

\* C6: top_missing and top_extra have at most 10 entries in non-increasing
\* order of residual count, equal counts in the order in which the n-grams
\* are first seen in the reference (top_missing) or the hypothesis (top_extra).
C6_TopListsRanked ==
  NgramDone =>
    \A n \in 1..n_max :
      /\ RankedFrom(report[n].top_missing, ref, n)
      /\ RankedFrom(report[n].top_extra, hyp, n)

\* a list cut to 10 entries whose order differs from first-seen order and
\* which holds a tie
C6_Witness ==
  /\ NgramDone
  /\ \E n \in 1..n_max :
       LET top == report[n].top_missing
       IN  /\ Len(top) = 10
           /\ report[n].distinct_ref_ngrams > 10
           /\ hyp # None /\ tokenize(hyp) # <<>>
           /\ FirstSeen(RefGrams(n), top[1][1]) > 1
           /\ top[1][2] > top[2][2]
           /\ \E i \in 1..9 : top[i][2] = top[i + 1][2]

(***************************************************************************)
(* Inputs of bleu_score                                                    *)
(***************************************************************************)
\* texts of three to five tokens, so that the orders 3 and 4 are scored
BleuLongTexts ==
  { Join(Words(<<1, 2, 1, 2, 1>>)),
    Join(Words(<<1, 2, 1, 1>>)),
    Join(Words(<<2, 1, 2>>)) }

BleuTexts == ShortTexts \cup BleuLongTexts \cup {None}

\* <<n_gram_max, weights, preserve_case>>: the defaults, the call made by
\* evaluate_extraction_quality, and weight vectors that are too short, sum
\* to zero, or hold a negative entry
BleuConfigs ==
  { <<4, NoWeights, FALSE>>,
    <<4, GoldWeights, TRUE>>,
    <<1, NoWeights, TRUE>>,
    <<0, NoWeights, FALSE>>,
    <<4, Weights(<<100>>), FALSE>>,
    <<4, Weights(<<0, 0, 0, 0>>), FALSE>>,
    <<4, Weights(<<10, -1>>), TRUE>> }

InitBleu ==
  /\ pc = "bleu_score"
  /\ reference \in BleuTexts
  /\ hypothesis \in BleuTexts
  /\ \E c \in BleuConfigs :
       n_gram_max = c[1] /\ weights = c[2] /\ preserve_case = c[3]
  /\ bleu = None
  /\ ref = None /\ hyp = None /\ n_max = 0 /\ report = NoReport
  /\ extracted = <<>> /\ gold = NoGold /\ now = 0 /\ eval_result = None
  /\ eval_prev = None /\ FormatIdle /\ JobIdle /\ ToolsIdle

BleuScore ==
  /\ pc = "bleu_score"
  /\ bleu' = BleuTrace(reference, hypothesis, n_gram_max, weights, preserve_case)
  /\ pc' = "bleu_score_done"
  /\ UNCHANGED <<reference, hypothesis, n_gram_max, weights, preserve_case,
                 ngramVars, evalVars, formatVars, jobVars, toolVars>>

NextBleu == BleuScore

SpecBleu == InitBleu /\ [][NextBleu]_vars

BleuDone == pc = "bleu_score_done"

\* C1: bleu_score(a, a) is exactly 1.0 for every non-empty string a, whatever
\* its length, token count, n_gram_max and weights.
C1_SelfScoreIsOne ==
  (BleuDone /\ reference # None /\ reference # <<>> /\ hypothesis = reference)
    => bleu.ret = SCALE

\* a text of several tokens scored against itself with caller weights
C1_Witness ==
  /\ BleuDone
  /\ reference = hypothesis /\ reference # None
  /\ Len(Split(reference)) >= 3
  /\ weights # NoWeights
  /\ bleu.ret = SCALE

\* a text as the claim reads it: None is the empty string, whitespace trimmed
Trimmed(x) == IF x = None THEN <<>> ELSE Strip(x)

\* C2: with None read as the empty string and surrounding whitespace trimmed,
\* the score is 1.0 when both sides are empty and 0.0 when exactly one is.
C2_EmptySides ==
  BleuDone =>
    /\ (Trimmed(reference) = <<>> /\ Trimmed(hypothesis) = <<>>) => bleu.ret = SCALE
    /\ (Trimmed(reference) = <<>>) # (Trimmed(hypothesis) = <<>>) => bleu.ret = 0

\* C3: the value returned by bleu_score lies in [0.0, 1.0].
C3_ScoreInUnitInterval ==
  BleuDone => (0 <= bleu.ret /\ bleu.ret <= SCALE)

\* the product of brevity penalty and geometric mean exceeds 1.0 and is clamped
C3_Witness ==
  /\ BleuDone
  /\ bleu.path = "computed"
  /\ bleu.raw > SCALE
  /\ bleu.ret = SCALE

\* C7: for every order n up to effective_n, the matches and total_hyp that
\* bleu_score uses are those compare_ngrams reports for the same two texts.
C7_ScorerUsesOverlapEngine ==
  (BleuDone /\ bleu.path = "computed") =>
    \A n \in 1..bleu.max_n :
      LET st == NgramStat(reference, hypothesis, n)
      IN  /\ bleu.counts[n].matches = st.matches
          /\ bleu.counts[n].total_hyp = st.total_hyp

\* C8: the weights of the geometric mean number exactly effective_n and sum
\* to 1 (uniform without caller weights or with a malformed vector).
C8_WeightsCoverAllOrders ==
  (BleuDone /\ bleu.path = "computed" /\ bleu.max_n > 0) =>
    /\ Len(bleu.w) = bleu.max_n
    /\ SumSeq([i \in 1..Len(bleu.w) |-> bleu.w[i].num]) = bleu.w[1].den
    /\ \A i \in 1..Len(bleu.w) : bleu.w[i].den = bleu.w[1].den
    /\ (weights = NoWeights \/ Len(weights.list) < bleu.max_n
          \/ SumSeq(SubSeq(weights.list, 1, Min(bleu.max_n, Len(weights.list)))) <= 0)
         => bleu.w = Uniform(bleu.max_n)

(***************************************************************************)
(* Inputs of evaluate_extraction_quality                                   *)
(***************************************************************************)
\* most rows in the extracted list and in the gold list
MaxExtracted == 2
MaxGold == 2

EvalKeys == {"Name", "Date"}

ExtractedValues == {None, <<>>, <<"a">>, <<"a", " ", "A">>}
GoldValues == {<<>>, <<"a">>, <<"a", " ", "A">>}

ExtractedRows == [key : EvalKeys, value : ExtractedValues]
GoldRows == [key : EvalKeys, value : GoldValues]

RECURSIVE ListsOfLen(_, _)
ListsOfLen(S, k) ==
  IF k = 0 THEN {<<>>}
  ELSE {Append(l, x) : l \in ListsOfLen(S, k - 1), x \in S}

ListsUpTo(S, k) == UNION {ListsOfLen(S, j) : j \in 0..k}

\* datetime.now() at the time of the call
Clock == {1, 2}

\* gold = [{key: Date, value: 2025-11-19}], extracted = [{key: Date, value: 2025/11/19}]
DateGold ==
  Gold(<<[key |-> "Date",
          value |-> <<"2", "0", "2", "5", "-", "1", "1", "-", "1", "9">>]>>)
DateExtracted ==
  <<[key |-> "Date", value |-> <<"2", "0", "2", "5", "/", "1", "1", "/", "1", "9">>]>>

EvalScenarios == {<<DateExtracted, DateGold>>}

InitEval ==
  /\ pc = "evaluate"
  /\ \/ /\ extracted \in ListsUpTo(ExtractedRows, MaxExtracted)
        /\ gold \in {Gold(l) : l \in ListsUpTo(GoldRows, MaxGold)} \cup {NoGold}
     \/ \E sc \in EvalScenarios : extracted = sc[1] /\ gold = sc[2]
  /\ now \in Clock
  /\ eval_result = None /\ eval_prev = None
  /\ FormatIdle /\ JobIdle /\ ToolsIdle
  /\ ref = None /\ hyp = None /\ n_max = 0 /\ report = NoReport
  /\ reference = None /\ hypothesis = None /\ n_gram_max = 0
  /\ weights = NoWeights /\ preserve_case = FALSE /\ bleu = None

EvaluateExtractionQuality ==
  /\ pc = "evaluate"
  /\ eval_result' = evaluate_extraction_quality(extracted, gold, now)
  /\ pc' = "evaluate_done"
  /\ UNCHANGED <<extracted, gold, now, eval_prev, ngramVars, bleuVars,
                 formatVars, jobVars, toolVars>>

NextEval == EvaluateExtractionQuality

SpecEval == InitEval /\ [][NextEval]_vars

EvalReturned == pc = "evaluate_done" /\ eval_result.status = "returned"

\* rows of the extracted list with a non-empty value
NonEmptyRows == Cardinality({i \in 1..Len(extracted) : ~Falsy(extracted[i].value)})

\* C9: every report has total_fields equal to the number of input records
\* and coverage = non_empty_fields / total_fields, or 0.0 when total_fields
\* is 0, with gold and without.
C9_CoverageIsNonEmptyOverTotal ==
  EvalReturned =>
    /\ eval_result.total_fields = Len(extracted)
    /\ eval_result.total_fields > 0 =>
         eval_result.coverage = [num |-> eval_result.non_empty_fields,
                                 den |-> Len(extracted)]
    /\ eval_result.total_fields = 0 => eval_result.coverage = [num |-> 0, den |-> 1]

\* a report with gold over two rows of the same key, one of them empty
C9_Witness ==
  /\ EvalReturned
  /\ GoldGiven(gold)
  /\ Len(extracted) = 2
  /\ extracted[1].key = extracted[2].key
  /\ eval_result.coverage = [num |-> 1, den |-> 2]

\* C10: with gold, a record without a gold match still counts in
\* total_fields and, when its value is non-empty, in non_empty_fields, so
\* coverage is the fraction of all input records with a non-empty value.
C10_UnmatchedRowsCountInCoverage ==
  (EvalReturned /\ GoldGiven(gold)) =>
    /\ eval_result.total_fields = Len(extracted)
    /\ eval_result.non_empty_fields = NonEmptyRows
    /\ eval_result.coverage = Ratio(NonEmptyRows, Len(extracted))

FieldScores == eval_result.field_scores

\* C11: without gold every FieldScore has bleu, seq_ratio and insertion_ratio
\* absent and the report's avg_bleu, max_bleu and min_bleu are absent, for
\* every list of records, the empty one included.
C11_NoGoldNoNumbers ==
  (EvalReturned /\ ~GoldGiven(gold)) =>
    /\ \A i \in 1..Len(FieldScores) :
         /\ FieldScores[i][2].bleu = Absent
         /\ FieldScores[i][2].seq_ratio = Absent
         /\ FieldScores[i][2].insertion_ratio = Absent
    /\ eval_result.avg_bleu = Absent
    /\ eval_result.max_bleu = Absent
    /\ eval_result.min_bleu = Absent

\* a call without gold over a non-empty and an empty value
C11_Witness ==
  /\ EvalReturned
  /\ ~gold.given
  /\ Len(extracted) = 2
  /\ extracted[1].key # extracted[2].key
  /\ ~Falsy(extracted[1].value) /\ Falsy(extracted[2].value)
  /\ Len(FieldScores) = 2
  /\ FieldScores[1][2].bleu = Absent

\* the gold rows that enter the gold index
IndexedGold == {j \in 1..Len(gold.rows) : ~Falsy(gold.rows[j].value)}

\* the extracted rows that are scored against gold
MatchedRows ==
  IF GoldGiven(gold)
  THEN {i \in 1..Len(extracted) :
          \E j \in IndexedGold : gold.rows[j].key = extracted[i].key}
  ELSE {}

\* C12: avg_bleu, max_bleu and min_bleu are absent whenever no per-field BLEU
\* score was produced, also with gold of which no key matches; otherwise
\* they are numbers with min_bleu <= avg_bleu <= max_bleu.
C12_AggregatesAbsentWithoutScores ==
  EvalReturned =>
    IF MatchedRows = {}
    THEN /\ eval_result.avg_bleu = Absent
         /\ eval_result.max_bleu = Absent
         /\ eval_result.min_bleu = Absent
    ELSE /\ eval_result.avg_bleu.present
         /\ eval_result.max_bleu.present
         /\ eval_result.min_bleu.present
         /\ eval_result.min_bleu.value <= eval_result.avg_bleu.value
         /\ eval_result.avg_bleu.value <= eval_result.max_bleu.value

\* the value of the first gold row of key k that enters the gold index
FirstGoldValue(k) ==
  LET j == CHOOSE x \in IndexedGold :
             /\ gold.rows[x].key = k
             /\ \A y \in IndexedGold : gold.rows[y].key = k => x <= y
  IN  gold.rows[j].value

\* C13: with several gold rows of one key, the gold index maps the key to the
\* value of the first of them.
C13_FirstGoldRowWins ==
  (EvalReturned /\ GoldGiven(gold)) =>
    \A i \in 1..Len(FieldScores) :
      FieldScores[i][2].gold = FirstGoldValue(FieldScores[i][1])

\* C14: field_scores has one entry per scored record, also when records
\* share a key.
C14_OneFieldScorePerRecord ==
  EvalReturned =>
    Len(FieldScores) =
      IF GoldGiven(gold) THEN Cardinality(MatchedRows) ELSE Len(extracted)

\* C15: with gold, a matched record with a null value does not make the call
\* raise; its FieldScore has bleu 0.0, insertion_ratio 0.0, exact_match false.
C15_NullValueScoredAsEmpty ==
  (pc = "evaluate_done" /\ GoldGiven(gold)
     /\ \E i \in MatchedRows : extracted[i].value = None) =>
    /\ eval_result.status = "returned"
    /\ \A i \in MatchedRows :
         (extracted[i].value = None
            /\ \A k \in MatchedRows : extracted[k].key = extracted[i].key => k <= i) =>
           LET fs == DictGet(FieldScores, extracted[i].key)
           IN  /\ fs.bleu = Some(0)
               /\ fs.insertion_ratio = Some([num |-> 0, den |-> 1])
               /\ fs.exact_match = FALSE

DateScore == DictGet(FieldScores, "Date")

DateCase == EvalReturned /\ extracted = DateExtracted /\ gold = DateGold

\* C17 as stated: for gold 2025-11-19 and extracted 2025/11/19 the FieldScore
\* of Date has exact_match false and seq_ratio strictly greater than 0.8.
C17_DateRatioAboveFourFifths ==
  DateCase =>
    /\ DateScore.exact_match = FALSE
    /\ 5 * DateScore.seq_ratio.value.num > 4 * DateScore.seq_ratio.value.den

\* C17 as amended: exact_match is false and seq_ratio is 2 * 8 / 20, which is
\* 0.8 and not more.
C17_DateRatioIsFourFifths ==
  DateCase =>
    /\ DateScore.exact_match = FALSE
    /\ DateScore.seq_ratio = Some([num |-> 16, den |-> 20])

C17_Witness ==
  /\ DateCase
  /\ DateScore.seq_ratio.present
  /\ 5 * DateScore.seq_ratio.value.num = 4 * DateScore.seq_ratio.value.den

\* the lower-cased whitespace tokens of a scored field
HypTokens(fs) == Split(Lower(fs.extracted))
RefTokens(fs) == Split(Lower(fs.gold))

RECURSIVE ResidualSum(_, _, _)
ResidualSum(S, ht, rt) ==
  IF S = {} THEN 0
  ELSE LET t == CHOOSE x \in S : TRUE
       IN  Max(0, Occ(ht, t) - Occ(rt, t)) + ResidualSum(S \ {t}, ht, rt)

\* C18 as stated: insertion_ratio is the number of hypothesis token
\* occurrences whose token does not occur in the reference, over the number
\* of hypothesis tokens, and 0.0 without hypothesis tokens.
C18_InsertionCountsAbsentTokens ==
  (EvalReturned /\ GoldGiven(gold)) =>
    \A i \in 1..Len(FieldScores) :
      LET fs == FieldScores[i][2]
          ht == HypTokens(fs)
      IN  fs.insertion_ratio =
            Some(Ratio(Cardinality({k \in 1..Len(ht) : ht[k] \notin Range(RefTokens(fs))}),
                       Len(ht)))

\* C18 as amended: insertion_ratio is the sum over the distinct hypothesis
\* tokens of the occurrences in excess of those in the reference, over the
\* number of hypothesis tokens, and 0.0 without hypothesis tokens.
C18_InsertionCountsResidual ==
  (EvalReturned /\ GoldGiven(gold)) =>
    \A i \in 1..Len(FieldScores) :
      LET fs == FieldScores[i][2]
          ht == HypTokens(fs)
      IN  fs.insertion_ratio =
            Some(Ratio(ResidualSum(Range(ht), ht, RefTokens(fs)), Len(ht)))

\* a token of the reference repeated in the hypothesis counts once as extra
C18_Witness ==
  /\ EvalReturned /\ GoldGiven(gold)
  /\ \E i \in 1..Len(FieldScores) :
       LET fs == FieldScores[i][2]
       IN  /\ fs.insertion_ratio = Some([num |-> 1, den |-> 2])
           /\ Range(HypTokens(fs)) \subseteq Range(RefTokens(fs))

(***************************************************************************)
(* evaluate_extraction_quality called twice on the same arguments          *)
(***************************************************************************)
\* a second call on the same records and gold at the same or a later reading
\* of datetime.now()
EvaluateAgain ==
  /\ pc = "evaluate_done"
  /\ \E t \in Clock : t >= now /\ now' = t
  /\ eval_prev' = eval_result
  /\ eval_result' = evaluate_extraction_quality(extracted, gold, now')
  /\ pc' = "evaluate_again_done"
  /\ UNCHANGED <<extracted, gold, ngramVars, bleuVars, formatVars, jobVars, toolVars>>

NextEvalTwice == EvaluateExtractionQuality \/ EvaluateAgain

SpecEvalTwice == InitEval /\ [][NextEvalTwice]_vars

EvaluatedTwice ==
  /\ pc = "evaluate_again_done"
  /\ eval_prev.status = "returned"
  /\ eval_result.status = "returned"

\* C16: two calls with the same records and the same gold return reports
\* that are equal in every attribute, timestamp included, whenever the calls
\* are made.
C16_SameArgumentsSameReport ==
  EvaluatedTwice => eval_result = eval_prev

(***************************************************************************)
(* evaluation/bleu_scorer.py: format_confidence_score                      *)
(***************************************************************************)
\* dict.get(key, default)
GetOr(dict, key, default) == IF key \in DOMAIN dict THEN dict[key] ELSE default

\* the thresholds of the markers, in hundredths
HighConfidence == 85
MediumConfidence == 70

GreenCircle == "green circle"
YellowCircle == "yellow circle"
RedCircle == "red circle"

\* ratio > hundredths / 100
AtLeastStrict(ratio, hundredths) == 100 * ratio.num > hundredths * ratio.den

\* ratio >= hundredths / 100
AtLeast(ratio, hundredths) == 100 * ratio.num >= hundredths * ratio.den

\* f"{x*100:.1f}%": the percentage in tenths, rounded to the nearest
Percent1(ratio) == (2000 * ratio.num + ratio.den) \div (2 * ratio.den)

\* coverage if avg_bleu is None else (avg_bleu + coverage) / 2
Confidence(avg_bleu, coverage) ==
  IF avg_bleu = Absent
  THEN coverage
  ELSE [num |-> avg_bleu.value * coverage.den + coverage.num * SCALE,
        den |-> 2 * SCALE * coverage.den]

\* the returned text, as the marker and the three numbers it prints; a bleu
\* of Absent is the text "N/A"
format_confidence_score(result) ==
  LET avg_bleu == GetOr(result, "avg_bleu", Absent)
      coverage == GetOr(result, "coverage", [num |-> 0, den |-> 1])
      confidence == Confidence(avg_bleu, coverage)
      emoji == IF AtLeast(confidence, HighConfidence) THEN GreenCircle
               ELSE IF AtLeast(confidence, MediumConfidence) THEN YellowCircle
               ELSE RedCircle
      bleu_text == IF avg_bleu = Absent
                   THEN Absent
                   ELSE Some(Percent1([num |-> avg_bleu.value, den |-> SCALE]))
  IN  [emoji |-> emoji,
       confidence |-> Percent1(confidence),
       bleu |-> bleu_text,
       coverage |-> Percent1(coverage)]

\* reports of 10 and of 20 fields, with BLEU averages in steps of 0.05
FieldTotals == {10, 20}
Coverages == {Ratio(k, total) : total \in FieldTotals, k \in 0..20} \cup {Ratio(0, 0)}
AvgBleus == {Absent} \cup {Some(k * (SCALE \div 20)) : k \in 0..20}

FormatReports ==
  {[avg_bleu |-> a, coverage |-> c] : a \in AvgBleus,
                                     c \in {x \in Coverages : x.num <= x.den}}
    \cup {[coverage |-> c] : c \in {x \in Coverages : x.num <= x.den}}
    \cup {[avg_bleu |-> a] : a \in AvgBleus}

InitFormat ==
  /\ pc = "format_confidence_score"
  /\ eval_result \in FormatReports
  /\ confidence_str = None
  /\ ref = None /\ hyp = None /\ n_max = 0 /\ report = NoReport
  /\ reference = None /\ hypothesis = None /\ n_gram_max = 0
  /\ weights = NoWeights /\ preserve_case = FALSE /\ bleu = None
  /\ extracted = <<>> /\ gold = NoGold /\ now = 0 /\ eval_prev = None
  /\ JobIdle /\ ToolsIdle

FormatConfidenceScore ==
  /\ pc = "format_confidence_score"
  /\ confidence_str' = format_confidence_score(eval_result)
  /\ pc' = "format_confidence_score_done"
  /\ UNCHANGED <<ngramVars, bleuVars, evalVars, jobVars, toolVars>>

NextFormat == FormatConfidenceScore

SpecFormat == InitFormat /\ [][NextFormat]_vars

FormatDone == pc = "format_confidence_score_done"

\* the report's values as the claim reads them
GivenBleu == GetOr(eval_result, "avg_bleu", Absent)
GivenCoverage == GetOr(eval_result, "coverage", [num |-> 0, den |-> 1])

\* the confidence of the claim over the denominator 2 * SCALE * den
ExpectedNum ==
  IF GivenBleu.present
  THEN GivenBleu.value * GivenCoverage.den + GivenCoverage.num * SCALE
  ELSE 2 * SCALE * GivenCoverage.num
ExpectedDen == 2 * SCALE * GivenCoverage.den

C19_Markers ==
  FormatDone =>
    /\ confidence_str.confidence = Percent1([num |-> ExpectedNum, den |-> ExpectedDen])
    /\ Cardinality({GreenCircle, YellowCircle, RedCircle}) = 3
    /\ confidence_str.emoji \in {GreenCircle, YellowCircle, RedCircle}
    /\ confidence_str.emoji = GreenCircle <=> 20 * ExpectedNum >= 17 * ExpectedDen
    /\ confidence_str.emoji = YellowCircle <=>
         (10 * ExpectedNum >= 7 * ExpectedDen /\ 20 * ExpectedNum < 17 * ExpectedDen)
    /\ confidence_str.emoji = RedCircle <=> 10 * ExpectedNum < 7 * ExpectedDen
    /\ confidence_str.bleu = Absent <=> ~GivenBleu.present

\* C19: the confidence is coverage when avg_bleu is absent and
\* (avg_bleu + coverage) / 2 otherwise; the marker is the high one iff
\* confidence >= 0.85, the medium one iff 0.70 <= confidence < 0.85, the low
\* one iff confidence < 0.70, and the three differ; BLEU is N/A exactly when
\* avg_bleu is absent; the report given is not modified.
C19_ConfidenceAndMarker ==
  [](C19_Markers) /\ [][eval_result' = eval_result]_vars

\* a confidence of exactly 0.85 from a BLEU average and a coverage
C19_Witness ==
  /\ FormatDone
  /\ GivenBleu.present
  /\ GivenBleu.value * GivenCoverage.den # SCALE * GivenCoverage.num
  /\ 20 * ExpectedNum = 17 * ExpectedDen
  /\ confidence_str.emoji = GreenCircle

(***************************************************************************)
(* Outcomes of calls that may raise                                        *)
(***************************************************************************)
Ok(value) == [raised |-> FALSE, value |-> value]
Raise(error) == [raised |-> TRUE, error |-> error]

(***************************************************************************)
(* tools/pdf_detection.py                                                  *)
(***************************************************************************)
\* most pages of an uploaded document
MaxPages == 2

\* a page with text, a page of whitespace, a page that is an image, and a
\* page whose extract_text() raises
TextPage == [raises |-> FALSE, text |-> <<"A", " ", "a">>, image |-> FALSE]
BlankPage == [raises |-> FALSE, text |-> <<" ">>, image |-> FALSE]
ImagePage == [raises |-> FALSE, text |-> <<>>, image |-> TRUE]
BrokenPage == [raises |-> TRUE, text |-> None, image |-> FALSE]

PageKinds == {TextPage, BlankPage, ImagePage, BrokenPage}

\* a file PdfReader cannot open, and the documents of up to MaxPages pages
Unreadable == [readable |-> FALSE, pages |-> <<>>]
Documents ==
  {Unreadable} \cup {[readable |-> TRUE, pages |-> ps] : ps \in ListsUpTo(PageKinds, MaxPages)}

\* the text of a page as is_scanned reads it: None when extract_text raises
TextOrNone(page) == IF page.raises THEN None ELSE page.text

\* the 20% rule with the boundary on the scanned side
is_scanned_inclusive(pdf) ==
  IF ~pdf.readable THEN Raise("PdfReadError")
  ELSE
    LET pages == Len(pdf.pages)
        pages_with_text ==
          Cardinality({i \in 1..pages :
                         /\ ~Falsy(TextOrNone(pdf.pages[i]))
                         /\ Strip(TextOrNone(pdf.pages[i])) # <<>>})
        image_pages == Cardinality({i \in 1..pages : pdf.pages[i].image})
    IN  IF pages = 0 THEN Ok(TRUE)
        ELSE IF pages_with_text = 0 /\ image_pages > 0 THEN Ok(TRUE)
        ELSE IF 5 * pages_with_text <= pages THEN Ok(TRUE)
        ELSE Ok(FALSE)

is_scanned(pdf) ==
  IF ~pdf.readable THEN Raise("PdfReadError")
  ELSE
    LET pages == Len(pdf.pages)
        pages_with_text ==
          Cardinality({i \in 1..pages :
                         /\ ~Falsy(TextOrNone(pdf.pages[i]))
                         /\ Strip(TextOrNone(pdf.pages[i])) # <<>>})
        image_pages == Cardinality({i \in 1..pages : pdf.pages[i].image})
    IN  IF pages = 0 THEN Ok(TRUE)
        ELSE IF pages_with_text = 0 /\ image_pages > 0 THEN Ok(TRUE)
        ELSE IF 5 * pages_with_text < pages THEN Ok(TRUE)
        ELSE Ok(FALSE)

(***************************************************************************)
(* app/main.py: texts and paths                                            *)
(***************************************************************************)
\* s.endswith(suffix)
EndsWith(s, suffix) ==
  /\ Len(s) >= Len(suffix)
  /\ SubSeq(s, Len(s) - Len(suffix) + 1, Len(s)) = suffix

\* sub in s
Contains(s, sub) ==
  \E i \in 1..(Len(s) + 1) :
    i + Len(sub) - 1 <= Len(s) /\ SubSeq(s, i, i + Len(sub) - 1) = sub

\* s.split('\n')
RECURSIVE SplitLinesFrom(_, _, _)
SplitLinesFrom(s, cur, acc) ==
  IF s = <<>> THEN Append(acc, cur)
  ELSE IF Head(s) = "\n"
       THEN SplitLinesFrom(Tail(s), <<>>, Append(acc, cur))
       ELSE SplitLinesFrom(Tail(s), Append(cur, Head(s)), acc)

SplitLines(s) == SplitLinesFrom(s, <<>>, <<>>)

\* '\n'.join(lines)
RECURSIVE JoinLines(_)
JoinLines(lines) ==
  IF lines = <<>> THEN <<>>
  ELSE IF Len(lines) = 1 THEN lines[1]
  ELSE lines[1] \o <<"\n">> \o JoinLines(Tail(lines))

\* Path(name).stem: the name without its last suffix
Stem(name) ==
  LET dots == {i \in 2..Len(name) : name[i] = "."}
  IN  IF dots = {} THEN name
      ELSE SubSeq(name, 1, (CHOOSE i \in dots : \A j \in dots : j <= i) - 1)

PdfSuffix == <<".", "p", "d", "f">>

\* 'Output_' + stem + '.xlsx'
OutputName(name) ==
  <<"O", "u", "t", "p", "u", "t", "_">> \o Stem(name) \o <<".", "x", "l", "s", "x">>

\* TMP / job_id / name
JobPath(job_id, name) == [dir |-> job_id, name |-> name]

(***************************************************************************)
(* app/main.py: the job table                                              *)
(***************************************************************************)
\* the values uuid.uuid4() returns
JobIds == {"job1"}

\* dict[key] = value on a dict with string keys
SetKey(dict, key, value) ==
  [k \in DOMAIN dict \cup {key} |-> IF k = key THEN value ELSE dict[k]]

\* JOBS[job_id][key] = value
SetJob(jobs, job_id, key, value) ==
  [jobs EXCEPT ![job_id] = SetKey(@, key, value)]

\* a log line: the text of the f-string and the values it interpolates
Msg(text, args) == [text |-> text, args |-> args]

\* JOBS[job_id]['logs'].append(message)
log(jobs, job_id, message) ==
  [jobs EXCEPT ![job_id].logs = Append(@, message)]

\* a handler that logs the error and leaves the status as it was
ExceptWithoutStatus(jobs, job_id, e) ==
  log(jobs, job_id, Msg("Error: {}", <<e>>))

\* except Exception as e: status 'error' and the log line 'Error: {e}'
Except(jobs, job_id, e) ==
  log(SetJob(jobs, job_id, "status", "error"), job_id, Msg("Error: {}", <<e>>))

\* page.extract_text() or ''
TextOrEmpty(text) == IF Falsy(text) THEN <<>> ELSE text

\* extract_context_for_key: the lines around the first line that mentions
\* the key, else around the first line that mentions the value, else None
FirstLineWith(lines, sub) ==
  LET hits == {i \in 1..Len(lines) : Contains(Lower(lines[i]), sub)}
  IN  IF hits = {} THEN 0 ELSE CHOOSE i \in hits : \A j \in hits : i <= j

extract_context_for_key(full_text, key, value) ==
  LET lines == SplitLines(full_text)
      by_key == FirstLineWith(lines, Strip(Lower(key)))
      by_value == FirstLineWith(lines, Strip(Lower(value)))
  IN  IF by_key > 0
      THEN JoinLines(SubSeq(lines, Max(1, by_key - 1), Min(Len(lines), by_key + 2)))
      ELSE IF by_value > 0
      THEN JoinLines(SubSeq(lines, Max(1, by_value - 1), Min(Len(lines), by_value + 1)))
      ELSE None

\* the compact summary kept for a field
NgramSummary(metrics) ==
  [n1_precision |-> metrics[1].precision,
   n2_precision |-> metrics[2].precision,
   n3_precision |-> metrics[3].precision,
   n4_precision |-> metrics[4].precision,
   top_missing_3gram |-> Truncate(metrics[3].top_missing, 3),
   top_extra_3gram |-> Truncate(metrics[3].top_extra, 3)]

\* the loop over the rows that fills ngram_metrics
RECURSIVE NgramMetricsFrom(_, _, _)
NgramMetricsFrom(rows, full_text, ngram_metrics) ==
  IF rows = <<>> THEN ngram_metrics
  ELSE
    LET row == Head(rows)
        ref_text == extract_context_for_key(full_text, row.key, row.value)
    IN  IF ~Falsy(row.key) /\ ~Falsy(row.value) /\ ~Falsy(ref_text)
        THEN NgramMetricsFrom(Tail(rows), full_text,
               DictSet(ngram_metrics, row.key,
                       NgramSummary(compare_ngrams(ref_text, row.value, DefaultNMax))))
        ELSE NgramMetricsFrom(Tail(rows), full_text, ngram_metrics)

\* the parameters of evaluate_extraction_quality
EvaluateParameters == {"extracted", "gold"}

\* a call is bound to the parameters: a keyword that is not one raises
EvaluateAccepts(keywords) == keywords \subseteq EvaluateParameters

\* evaluate_extraction_quality(rows, full_text=full_text)
EvaluateWithFullText(rows, full_text, clock) ==
  IF EvaluateAccepts({"full_text"})
  THEN evaluate_extraction_quality(rows, NoGold, clock)
  ELSE [status |-> "raised",
        error |-> "evaluate_extraction_quality() got an unexpected keyword argument 'full_text'"]

\* the sheet json_to_excel writes: the columns key, value, comment
Sheet(rows) ==
  [i \in 1..Len(rows) |->
     [key |-> GetOr(rows[i], "key", <<>>),
      value |-> GetOr(rows[i], "value", <<>>),
      comment |-> GetOr(rows[i], "comment", <<>>)]]

(***************************************************************************)
(* app/main.py: upload, process_job, status, download                      *)
(***************************************************************************)
FileNames ==
  {<<"a", ".", "p", "d", "f">>, <<"a", ".", "P", "D", "F">>, <<"a", ".", "t", "x", "t">>}

\* what the schema detector, the extractor and the exporter do when called
KeyA == <<"A">>
KeyD == <<"D">>
RowA == [key |-> KeyA, value |-> <<"a">>, comment |-> <<>>]
RowD == [key |-> KeyD, value |-> <<>>, comment |-> <<>>]

SchemaOutcomes == {Raise("schema detector"), Ok(<<>>), Ok(<<KeyA>>), Ok(<<KeyA, KeyD>>)}
LlmOutcomes == {Raise("extractor"), Ok(<<>>), Ok(<<RowA>>), Ok(<<RowA, RowD>>)}
ExportOutcomes == {Raise("exporter"), Ok(TRUE)}

InitJob ==
  /\ pc = "upload"
  /\ upload_file \in [filename : FileNames, content : Documents]
  /\ env \in [schema : SchemaOutcomes, llm : LlmOutcomes, export : ExportOutcomes]
  /\ JOBS = <<>> /\ background = <<>> /\ frame = None /\ files = <<>>
  /\ response = None
  /\ ref = None /\ hyp = None /\ n_max = 0 /\ report = NoReport
  /\ reference = None /\ hypothesis = None /\ n_gram_max = 0
  /\ weights = NoWeights /\ preserve_case = FALSE /\ bleu = None
  /\ extracted = <<>> /\ gold = NoGold /\ now = 0 /\ eval_result = None
  /\ eval_prev = None /\ FormatIdle /\ ToolsIdle

otherVars == <<ngramVars, bleuVars, evalVars, formatVars, toolVars>>

\* POST /upload
Upload ==
  /\ pc = "upload"
  /\ IF ~EndsWith(Lower(upload_file.filename), PdfSuffix)
     THEN /\ response' = [code |-> 400, detail |-> "Only PDF files supported"]
          /\ pc' = "rejected"
          /\ UNCHANGED <<JOBS, background, files>>
     ELSE \E job_id \in JobIds \ DOMAIN JOBS :
            LET pdf_path == JobPath(job_id, upload_file.filename)
            IN  /\ files' = DictSet(files, pdf_path, upload_file.content)
                /\ JOBS' = [j \in DOMAIN JOBS \cup {job_id} |->
                              IF j = job_id
                              THEN [status |-> "uploaded", logs |-> <<>>, out |-> Absent]
                              ELSE JOBS[j]]
                /\ background' = Append(background,
                                        [job_id |-> job_id, pdf_path |-> pdf_path])
                /\ response' = [code |-> 200, body |-> [job_id |-> job_id]]
                /\ pc' = "queued"
  /\ UNCHANGED <<upload_file, env, frame, otherVars>>

\* process_job, lines 122-127: the task starts and detects the PDF type
DetectType ==
  /\ pc = "queued"
  /\ background # <<>>
  /\ LET task == Head(background)
         job_id == task.job_id
         logged == log(JOBS, job_id, Msg("Detecting PDF type...", <<>>))
         scanned == is_scanned(DictGet(files, task.pdf_path))
     IN  /\ frame' = [job_id |-> job_id, pdf_path |-> task.pdf_path]
         /\ background' = Tail(background)
         /\ IF scanned.raised
            THEN /\ JOBS' = Except(logged, job_id, scanned.error)
                 /\ pc' = "returned"
            ELSE IF scanned.value
            THEN /\ JOBS' = SetJob(log(logged, job_id,
                                       Msg("PDF appears scanned. Stopping (no OCR path).", <<>>)),
                                   job_id, "status", "scanned")
                 /\ pc' = "returned"
            ELSE /\ JOBS' = logged
                 /\ pc' = "extract_text"
  /\ UNCHANGED <<upload_file, env, files, response, otherVars>>

\* process_job, lines 129-134
ExtractText ==
  /\ pc = "extract_text"
  /\ LET job_id == frame.job_id
         pdf == DictGet(files, frame.pdf_path)
         logged == log(JOBS, job_id, Msg("Digital PDF detected; extracting text...", <<>>))
         full_text == JoinLines([i \in 1..Len(pdf.pages) |-> TextOrEmpty(pdf.pages[i].text)])
     IN  IF ~pdf.readable
         THEN /\ JOBS' = Except(logged, job_id, "PdfReadError")
              /\ pc' = "returned"
              /\ UNCHANGED frame
         ELSE IF \E i \in 1..Len(pdf.pages) : pdf.pages[i].raises
         THEN /\ JOBS' = Except(logged, job_id, "extract_text")
              /\ pc' = "returned"
              /\ UNCHANGED frame
         ELSE /\ frame' = SetKey(frame, "full_text", full_text)
              /\ JOBS' = log(logged, job_id,
                             Msg("Extracted {} characters from PDF.", <<Len(full_text)>>))
              /\ pc' = "detect_schema"
  /\ UNCHANGED <<upload_file, env, background, files, response, otherVars>>

\* process_job, lines 136-142
DetectSchema ==
  /\ pc = "detect_schema"
  /\ LET job_id == frame.job_id
         logged == log(JOBS, job_id, Msg("Detecting schema from content...", <<>>))
         keys == env.schema
     IN  IF keys.raised
         THEN /\ JOBS' = Except(logged, job_id, keys.error)
              /\ pc' = "returned"
              /\ UNCHANGED frame
         ELSE IF keys.value = <<>>
         THEN /\ JOBS' = Except(logged, job_id, "Failed to detect schema from content")
              /\ pc' = "returned"
              /\ UNCHANGED frame
         ELSE /\ frame' = SetKey(frame, "keys", keys.value)
              /\ JOBS' = log(logged, job_id,
                             Msg("Detected {} fields from content.", <<Len(keys.value)>>))
              /\ pc' = "extract_values"
  /\ UNCHANGED <<upload_file, env, background, files, response, otherVars>>

\* process_job, lines 144-148
ExtractValues ==
  /\ pc = "extract_values"
  /\ LET job_id == frame.job_id
         logged == log(JOBS, job_id, Msg("Extracting values via LLM...", <<>>))
         rows == env.llm
     IN  IF rows.raised
         THEN /\ JOBS' = Except(logged, job_id, rows.error)
              /\ pc' = "returned"
              /\ UNCHANGED frame
         ELSE /\ frame' = SetKey(frame, "rows", rows.value)
              /\ JOBS' = log(logged, job_id,
                             Msg("Extracted {} key:value pairs via LLM.", <<Len(rows.value)>>))
              /\ pc' = "ngram_metrics"
  /\ UNCHANGED <<upload_file, env, background, files, response, otherVars>>

\* process_job, lines 150-170
NgramMetrics ==
  /\ pc = "ngram_metrics"
  /\ JOBS' = log(JOBS, frame.job_id, Msg("Computing n-gram metrics...", <<>>))
  /\ frame' = SetKey(frame, "ngram_metrics",
                     NgramMetricsFrom(frame.rows, frame.full_text, <<>>))
  /\ pc' = "evaluate"
  /\ UNCHANGED <<upload_file, env, background, files, response, otherVars>>

\* Path(pdf_path).with_name('Output_' + Path(pdf_path).stem + '.xlsx')
OutXlsx(pdf_path) == JobPath(pdf_path.dir, OutputName(pdf_path.name))

\* process_job, lines 181-186: the results saved into the job record
Saved(jobs, job_id, rows, result, keys, ngram_metrics) ==
  SetJob(SetJob(SetJob(SetJob(SetJob(jobs,
    job_id, "status", "extracted"),
    job_id, "rows", rows),
    job_id, "eval_result", result),
    job_id, "schema", keys),
    job_id, "ngram_metrics", ngram_metrics)

\* process_job, lines 191-196: the output registered after the export
Registered(jobs, job_id, rows, out_xlsx) ==
  log(SetJob(SetJob(SetJob(jobs,
        job_id, "out", Some(out_xlsx)),
        job_id, "data", rows),
        job_id, "status", "done"),
      job_id, Msg("Wrote Excel to {}", <<out_xlsx>>))

\* process_job, lines 178-199: what follows the evaluation, given its result
\* and the outcome of the export; the job table and the files it leaves
AfterEvaluation(jobs, fs, locals, result, export) ==
  LET job_id == locals.job_id
      saved == Saved(log(jobs, job_id, Msg("{}", <<format_confidence_score(result)>>)),
                     job_id, locals.rows, result, locals.keys, locals.ngram_metrics)
      out_xlsx == OutXlsx(locals.pdf_path)
  IN  IF result.status = "raised"
      THEN [jobs |-> Except(jobs, job_id, result.error), files |-> fs]
      ELSE IF export.raised
      THEN [jobs |-> Except(saved, job_id, export.error), files |-> fs]
      ELSE [jobs |-> Registered(saved, job_id, locals.rows, out_xlsx),
            files |-> DictSet(fs, out_xlsx, Sheet(locals.rows))]

\* process_job, lines 172-199: evaluation, saving, export, and the handler
EvaluateAndExport ==
  /\ pc = "evaluate"
  /\ \E clock \in Clock :
       \E after \in {AfterEvaluation(
                        log(JOBS, frame.job_id, Msg("Evaluating extraction quality...", <<>>)),
                        files, frame,
                        EvaluateWithFullText(frame.rows, frame.full_text, clock),
                        env.export)} :
         /\ JOBS' = after.jobs
         /\ files' = after.files
  /\ pc' = "returned"
  /\ UNCHANGED <<upload_file, env, background, frame, response, otherVars>>

\* the job ids a client asks for
RequestIds == JobIds \cup {"unknown"}

\* GET /status/{job_id}
Status(job_id) ==
  /\ response' = IF job_id \notin DOMAIN JOBS
                 THEN [code |-> 404, detail |-> "job not found"]
                 ELSE [code |-> 200, body |-> JOBS[job_id]]
  /\ UNCHANGED <<pc, upload_file, env, JOBS, background, frame, files, otherVars>>

\* GET /download/{job_id}
Download(job_id) ==
  /\ response' = IF job_id \notin DOMAIN JOBS
                 THEN [code |-> 404, detail |-> "job not found"]
                 ELSE IF ~JOBS[job_id].out.present
                 THEN [code |-> 404, detail |-> "output not ready"]
                 ELSE [code |-> 200,
                       file |-> DictGet(files, JOBS[job_id].out.value),
                       filename |-> JOBS[job_id].out.value.name]
  /\ UNCHANGED <<pc, upload_file, env, JOBS, background, frame, files, otherVars>>

NextJob ==
  \/ Upload
  \/ DetectType
  \/ ExtractText
  \/ DetectSchema
  \/ ExtractValues
  \/ NgramMetrics
  \/ EvaluateAndExport
  \/ \E job_id \in RequestIds : Status(job_id)
  \/ \E job_id \in RequestIds : Download(job_id)

SpecJob == InitJob /\ [][NextJob]_vars

\* process_job has returned
JobReturned == pc = "returned"

\* the uploaded PDF is digital and every step succeeds when called
Digital == is_scanned(upload_file.content) = Ok(FALSE)
TextExtracted == \A i \in 1..Len(upload_file.content.pages) : ~upload_file.content.pages[i].raises
SchemaDetected == ~env.schema.raised /\ env.schema.value # <<>>
ValuesExtracted == ~env.llm.raised
Exportable == ~env.export.raised

\* C20: for an uploaded digital PDF for which text extraction, schema
\* detection, LLM extraction and Excel export succeed, process_job ends with
\* status 'done', 'out' set to the written Excel path and rows and
\* eval_result stored, so that the download serves the file.
C20_DigitalJobEndsDone ==
  (JobReturned /\ Digital /\ TextExtracted /\ SchemaDetected
     /\ ValuesExtracted /\ Exportable) =>
    LET job == JOBS[frame.job_id]
    IN  /\ job.status = "done"
        /\ job.out = Some(OutXlsx(frame.pdf_path))
        /\ DictHas(files, OutXlsx(frame.pdf_path))
        /\ {"rows", "eval_result"} \subseteq DOMAIN job

\* the message of the first step of process_job that raises for the uploaded
\* document and the outcomes of the external steps, Absent when none does
FirstError ==
  IF ~upload_file.content.readable THEN Some("PdfReadError")
  ELSE IF is_scanned(upload_file.content).value THEN Absent
  ELSE IF ~TextExtracted THEN Some("extract_text")
  ELSE IF env.schema.raised THEN Some(env.schema.error)
  ELSE IF env.schema.value = <<>> THEN Some("Failed to detect schema from content")
  ELSE IF env.llm.raised THEN Some(env.llm.error)
  ELSE IF ~({"full_text"} \subseteq EvaluateParameters)
  THEN Some("evaluate_extraction_quality() got an unexpected keyword argument 'full_text'")
  ELSE IF env.export.raised THEN Some(env.export.error)
  ELSE Absent

\* C21: when process_job has returned the job's status is 'scanned', 'done'
\* or 'error', never 'uploaded' or 'extracted'; when a step raised, the
\* status is 'error' and the last log entry is 'Error: <message>'; 'out' is
\* set only if the Excel export completed.
C21_JobEndsScannedDoneOrError ==
  JobReturned =>
    LET job == JOBS[frame.job_id]
    IN  /\ job.status \in {"scanned", "done", "error"}
        /\ FirstError.present =>
             /\ job.status = "error"
             /\ job.logs # <<>>
             /\ job.logs[Len(job.logs)].text = "Error: {}"
             /\ job.logs[Len(job.logs)].args = <<FirstError.value>>
        /\ job.out.present =>
             /\ ~env.export.raised
             /\ DictHas(files, job.out.value)

\* a digital job whose extractor raised has returned with the error logged
C21_Witness ==
  /\ JobReturned
  /\ Digital /\ TextExtracted /\ SchemaDetected
  /\ env.llm.raised
  /\ JOBS[frame.job_id].status = "error"
  /\ Len(JOBS[frame.job_id].logs) > 1

(***************************************************************************)
(* pipeline_runner.py: run_pipeline                                        *)
(***************************************************************************)
\* Path(name).with_suffix(suffix)
WithSuffix(name, suffix) == Stem(name) \o suffix

JsonSuffix == <<".", "j", "s", "o", "n">>

\* Path(output_xlsx).with_stem(stem + '_evaluation').with_suffix('.json')
EvaluationName(name) ==
  WithSuffix(Stem(name) \o <<"_", "e", "v", "a", "l", "u", "a", "t", "i", "o", "n">>
               \o SubSeq(name, Len(Stem(name)) + 1, Len(name)),
             JsonSuffix)

\* the PDF given on the command line and an output path given by the caller
PipelinePath == JobPath("input", <<"a", ".", "p", "d", "f">>)
GivenOutput == JobPath("output", <<"a", ".", "x", "l", "s", "x">>)

\* x * 100 on a value that may be None
TimesHundred(x) ==
  IF x.present THEN Ok(100 * x.value)
  ELSE Raise("unsupported operand type(s) for *: 'NoneType' and 'int'")

\* run_pipeline, lines 57-82: what follows the evaluation
AfterPipelineEvaluation(fs, pdf_path, output_xlsx, rows, result, export) ==
  LET out == IF output_xlsx.present THEN output_xlsx.value ELSE OutXlsx(pdf_path)
      json_out == JobPath(out.dir, WithSuffix(out.name, JsonSuffix))
      eval_out == JobPath(out.dir, EvaluationName(out.name))
      xlsx_written == DictSet(fs, out, Sheet(rows))
      all_written == DictSet(DictSet(xlsx_written, json_out, rows), eval_out, result)
  IN  IF result.status = "raised"
      THEN [result |-> Raise(result.error), files |-> fs]
      ELSE IF export.raised
      THEN [result |-> export, files |-> fs]
      ELSE IF TimesHundred(result.avg_bleu).raised
      THEN [result |-> TimesHundred(result.avg_bleu), files |-> all_written]
      ELSE [result |-> Ok(TRUE), files |-> all_written]

\* run_pipeline(pdf_path, output_xlsx): the value returned or the exception
\* that leaves the function, and the files written
run_pipeline(fs, pdf_path, output_xlsx, outcomes, clock) ==
  LET doc == DictGet(fs, pdf_path)
      is_scan == is_scanned(doc)
      full_text == JoinLines([i \in 1..Len(doc.pages) |-> TextOrEmpty(doc.pages[i].text)])
  IN  IF is_scan.raised THEN [result |-> is_scan, files |-> fs]
      ELSE IF is_scan.value THEN [result |-> Ok(FALSE), files |-> fs]
      ELSE IF \E i \in 1..Len(doc.pages) : doc.pages[i].raises
      THEN [result |-> Raise("extract_text"), files |-> fs]
      ELSE IF outcomes.schema.raised THEN [result |-> outcomes.schema, files |-> fs]
      ELSE IF outcomes.schema.value = <<>> THEN [result |-> Ok(FALSE), files |-> fs]
      ELSE IF outcomes.llm.raised THEN [result |-> outcomes.llm, files |-> fs]
      ELSE AfterPipelineEvaluation(fs, pdf_path, output_xlsx, outcomes.llm.value,
             evaluate_extraction_quality(outcomes.llm.value, NoGold, clock),
             outcomes.export)

InitPipeline ==
  /\ pc = "run_pipeline"
  /\ \E doc \in Documents : files = DictSet(<<>>, PipelinePath, doc)
  /\ env \in [schema : SchemaOutcomes, llm : LlmOutcomes, export : ExportOutcomes]
  /\ run \in [output_xlsx : {Absent, Some(GivenOutput)}, result : {None}]
  /\ upload_file = None /\ JOBS = <<>> /\ background = <<>> /\ frame = None
  /\ response = None
  /\ document = None /\ scan_result = None /\ llm = None
  /\ pred = None /\ match_report = None
  /\ ref = None /\ hyp = None /\ n_max = 0 /\ report = NoReport
  /\ reference = None /\ hypothesis = None /\ n_gram_max = 0
  /\ weights = NoWeights /\ preserve_case = FALSE /\ bleu = None
  /\ extracted = <<>> /\ gold = NoGold /\ now = 0 /\ eval_result = None
  /\ eval_prev = None /\ FormatIdle

RunPipeline ==
  /\ pc = "run_pipeline"
  /\ \E clock \in Clock :
       \E done \in {run_pipeline(files, PipelinePath, run.output_xlsx, env, clock)} :
         /\ run' = [run EXCEPT !.result = done.result]
         /\ files' = done.files
  /\ pc' = "run_pipeline_done"
  /\ UNCHANGED <<upload_file, env, JOBS, background, frame, response,
                 document, scan_result, llm, pred, match_report,
                 ngramVars, bleuVars, evalVars, formatVars>>

NextPipeline == RunPipeline

SpecPipeline == InitPipeline /\ [][NextPipeline]_vars

PipelineDone == pc = "run_pipeline_done"

\* the PDF of the run and what the claim assumes of it
PipelineDocument == DictGet(files, PipelinePath)
PipelineDigital == is_scanned(PipelineDocument) = Ok(FALSE)
PipelineTextExtracted ==
  \A i \in 1..Len(PipelineDocument.pages) : ~PipelineDocument.pages[i].raises

\* C22: run_pipeline returns True whenever the PDF is digital, a non-empty
\* schema is detected and extraction and export succeed; it returns False
\* only for a scanned PDF or a schema-detection failure.
C22_PipelineReturnsTrue ==
  PipelineDone =>
    /\ (PipelineDigital /\ PipelineTextExtracted /\ SchemaDetected
          /\ ValuesExtracted /\ Exportable) => run.result = Ok(TRUE)
    /\ run.result = Ok(FALSE) =>
          \/ is_scanned(PipelineDocument) = Ok(TRUE)
          \/ (~env.schema.raised /\ env.schema.value = <<>>)

(***************************************************************************)
(* tools/pdf_detection.py: is_scanned on documents of several pages        *)
(***************************************************************************)
\* most pages of a document given to is_scanned
MaxScanPages == 6

\* a page with text and an image
TextImagePage == [raises |-> FALSE, text |-> <<"A", " ", "a">>, image |-> TRUE]

ScanDocuments ==
  {Unreadable} \cup
  {[readable |-> TRUE, pages |-> ps] :
     ps \in ListsUpTo(PageKinds \cup {TextImagePage}, MaxScanPages)}

InitScan ==
  /\ pc = "is_scanned"
  /\ document \in ScanDocuments
  /\ scan_result = None
  /\ run = None /\ llm = None /\ pred = None /\ match_report = None
  /\ JobIdle /\ FormatIdle
  /\ ref = None /\ hyp = None /\ n_max = 0 /\ report = NoReport
  /\ reference = None /\ hypothesis = None /\ n_gram_max = 0
  /\ weights = NoWeights /\ preserve_case = FALSE /\ bleu = None
  /\ extracted = <<>> /\ gold = NoGold /\ now = 0 /\ eval_result = None
  /\ eval_prev = None

IsScanned ==
  /\ pc = "is_scanned"
  /\ scan_result' = is_scanned(document)
  /\ pc' = "is_scanned_done"
  /\ UNCHANGED <<document, run, llm, pred, match_report,
                 ngramVars, bleuVars, evalVars, formatVars, jobVars>>

NextScan == IsScanned

SpecScan == InitScan /\ [][NextScan]_vars

ScanDone == pc = "is_scanned_done" /\ document.readable

\* the counts of the claim: pages, pages that have text, pages with an image
PageCount == Len(document.pages)
HasText(page) ==
  /\ ~page.raises
  /\ \E k \in 1..Len(page.text) : page.text[k] \notin {" ", "\n"}
TextPageCount == Cardinality({i \in 1..PageCount : HasText(document.pages[i])})
ImagePageCount == Cardinality({i \in 1..PageCount : document.pages[i].image})

\* the document with the images taken off its pages
WithoutImages ==
  [document EXCEPT !.pages = [i \in 1..PageCount |->
                                [document.pages[i] EXCEPT !.image = FALSE]]]

\* C23: is_scanned returns True iff the document has no pages, or no page
\* has text while some page has an image, or 5 x pages_with_text < pages; it
\* returns False iff pages > 0 and 5 x pages_with_text >= pages; the image
\* pages do not change the result.
C23_ScannedIffFewTextPages ==
  ScanDone =>
    /\ scan_result = Ok(TRUE) <=>
         \/ PageCount = 0
         \/ (TextPageCount = 0 /\ ImagePageCount > 0)
         \/ 5 * TextPageCount < PageCount
    /\ scan_result = Ok(FALSE) <=>
         (PageCount > 0 /\ 5 * TextPageCount >= PageCount)
    /\ is_scanned(WithoutImages) = scan_result

\* one page of five has text, exactly 20%: digital, images or not
C23_Witness ==
  /\ ScanDone
  /\ PageCount = 5 /\ TextPageCount = 1 /\ ImagePageCount = 4
  /\ scan_result = Ok(FALSE)

(***************************************************************************)
(* pipeline/llm_extractor.py: the batch call, its retries and the fallback *)
(***************************************************************************)
\* most keys given to the extractor
MaxKeys == 2

HeuristicMatch ==
  <<"h", "e", "u", "r", "i", "s", "t", "i", "c", " ", "m", "a", "t", "c", "h">>

\* line.split(':', 1)[1]
AfterColon(line) ==
  LET i == CHOOSE j \in 1..Len(line) :
             line[j] = ":" /\ \A k \in 1..(j - 1) : line[k] # ":"
  IN  SubSeq(line, i + 1, Len(line))

\* s[:200]
First200(s) == IF Len(s) > 200 THEN SubSeq(s, 1, 200) ELSE s

\* the row of one key with a non-blank name
MockRow(lines, key) ==
  LET key_lower == Lower(Strip(key))
      j == FirstLineWith(lines, key_lower)
  IN  IF j = 0 THEN [key |-> key, value |-> <<>>, comment |-> <<>>]
      ELSE IF Contains(lines[j], <<":">>)
      THEN [key |-> key, value |-> First200(Strip(AfterColon(lines[j]))),
            comment |-> HeuristicMatch]
      ELSE IF j + 1 <= Len(lines)
      THEN [key |-> key, value |-> First200(Strip(lines[j + 1])),
            comment |-> HeuristicMatch]
      ELSE [key |-> key, value |-> <<>>, comment |-> HeuristicMatch]

RECURSIVE MockRows(_, _)
MockRows(lines, keys) ==
  IF keys = <<>> THEN <<>>
  ELSE IF Strip(Head(keys)) = <<>> THEN MockRows(lines, Tail(keys))
  ELSE <<MockRow(lines, Head(keys))>> \o MockRows(lines, Tail(keys))

extract_with_llm_mistral_mock(text, keys) ==
  MockRows(SplitLines(Lower(text)), keys)

\* a row of the response with the missing fields set to ''
FillRow(row) ==
  [key     |-> IF "key" \in DOMAIN row THEN row.key ELSE <<>>,
   value   |-> IF "value" \in DOMAIN row THEN row.value ELSE <<>>,
   comment |-> IF "comment" \in DOMAIN row THEN row.comment ELSE <<>>]

\* what the text of a response parses to
NoArray == [kind |-> "no_array"]
BadJson == [kind |-> "bad_json"]
Numbers == [kind |-> "numbers"]
RowsOf(rows) == [kind |-> "rows", rows |-> rows]

\* the statements after the retry loop, with their two except clauses
ParseRows(text, keys, content) ==
  IF content.kind = "rows"
  THEN [i \in 1..Len(content.rows) |-> FillRow(content.rows[i])]
  ELSE extract_with_llm_mistral_mock(text, keys)

max_retries == 3

\* retry_delay *= 1
NextDelayConstant(retry_delay) == retry_delay

\* retry_delay *= 2
NextDelay(retry_delay) == retry_delay * 2

Sleep(seconds) == [op |-> "sleep", arg |-> seconds]
Invoked(attempt) == [op |-> "invoke", arg |-> attempt]

LlmTexts == {<<"A", ":", " ", "a">>, <<"A", "\n", "a">>, <<"d">>}
LlmKeys == {KeyA, KeyD, <<" ">>}
LlmSetups == {"no_langchain", "no_api_key", "client_error", "ready"}
LlmResponses ==
  {NoArray, BadJson, Numbers, RowsOf(<<RowA>>),
   RowsOf(<<[key |-> KeyA], [value |-> <<"a">>, comment |-> <<>>]>>)}
InvokeOutcomes == {Raise("api")} \cup {Ok(r) : r \in LlmResponses}

InitLlm ==
  /\ pc = "extract_with_llm_mistral"
  /\ llm \in [text : LlmTexts, keys : ListsUpTo(LlmKeys, MaxKeys),
              schema : {Raise("schema detector"), Ok(<<>>), Ok(<<KeyA>>)},
              setup : LlmSetups,
              outcomes : [1..max_retries -> InvokeOutcomes],
              attempt : {0}, retry_delay : {0}, trace : {<<>>},
              response : {None}, result : {None}]
  /\ (llm.keys # <<>> => llm.schema = Ok(<<>>))
  /\ document = None /\ scan_result = None
  /\ run = None /\ pred = None /\ match_report = None
  /\ JobIdle /\ FormatIdle
  /\ ref = None /\ hyp = None /\ n_max = 0 /\ report = NoReport
  /\ reference = None /\ hypothesis = None /\ n_gram_max = 0
  /\ weights = NoWeights /\ preserve_case = FALSE /\ bleu = None
  /\ extracted = <<>> /\ gold = NoGold /\ now = 0 /\ eval_result = None
  /\ eval_prev = None

LlmUnchanged ==
  UNCHANGED <<document, scan_result, run, pred, match_report,
              ngramVars, bleuVars, evalVars, formatVars, jobVars>>

\* extract_with_llm_mistral up to the call of the batch function
ExtractWithLlm ==
  /\ pc = "extract_with_llm_mistral"
  /\ IF llm.keys # <<>>
     THEN /\ pc' = "batch"
          /\ llm' = llm
     ELSE IF llm.schema.raised
     THEN /\ pc' = "llm_done"
          /\ llm' = [llm EXCEPT !.result = llm.schema]
     ELSE IF llm.schema.value = <<>>
     THEN /\ pc' = "llm_done"
          /\ llm' = [llm EXCEPT !.result = Ok(<<>>)]
     ELSE /\ pc' = "batch"
          /\ llm' = [llm EXCEPT !.keys = llm.schema.value]
  /\ LlmUnchanged

\* the batch function up to the retry loop
BatchSetup ==
  /\ pc = "batch"
  /\ IF llm.setup \in {"no_langchain", "no_api_key"}
     THEN /\ pc' = "llm_done"
          /\ llm' = [llm EXCEPT
                       !.result = Ok(extract_with_llm_mistral_mock(llm.text, llm.keys))]
     ELSE IF llm.setup = "client_error"
     THEN /\ pc' = "llm_done"
          /\ llm' = [llm EXCEPT !.result = Raise("ChatMistralAI")]
     ELSE /\ pc' = "invoke"
          /\ llm' = [llm EXCEPT !.trace = <<Sleep(2)>>, !.retry_delay = 5,
                                !.attempt = 0]
  /\ LlmUnchanged

\* one turn of the retry loop
Invoke ==
  /\ pc = "invoke"
  /\ LET outcome == llm.outcomes[llm.attempt + 1]
         called == Append(llm.trace, Invoked(llm.attempt))
     IN  IF ~outcome.raised
         THEN /\ pc' = "parse"
              /\ llm' = [llm EXCEPT !.trace = called,
                                    !.response = outcome.value]
         ELSE IF llm.attempt < max_retries - 1
         THEN /\ pc' = "invoke"
              /\ llm' = [llm EXCEPT
                           !.trace = Append(called, Sleep(llm.retry_delay)),
                           !.retry_delay = NextDelay(llm.retry_delay),
                           !.attempt = llm.attempt + 1]
         ELSE /\ pc' = "llm_done"
              /\ llm' = [llm EXCEPT
                           !.trace = called,
                           !.result = Ok(extract_with_llm_mistral_mock(llm.text, llm.keys))]
  /\ LlmUnchanged

\* the statements after the loop
ParseResponse ==
  /\ pc = "parse"
  /\ pc' = "llm_done"
  /\ llm' = [llm EXCEPT !.result = Ok(ParseRows(llm.text, llm.keys, llm.response))]
  /\ LlmUnchanged

NextLlm == ExtractWithLlm \/ BatchSetup \/ Invoke \/ ParseResponse

SpecLlm == InitLlm /\ [][NextLlm]_vars

LlmDone == pc = "llm_done"

\* positions of the trace where the LLM was invoked
InvokePositions == {i \in 1..Len(llm.trace) : llm.trace[i].op = "invoke"}

AllAttemptsRaise == \A k \in 1..max_retries : llm.outcomes[k].raised

\* C24: the LLM is invoked at most 3 times per call; an attempt after the
\* first happens only after the previous one raised and a wait of 5 seconds
\* (2nd attempt) or 10 seconds (3rd attempt); nothing is invoked after a
\* successful attempt; when all 3 attempts raise, the call returns the rows
\* of the heuristic fallback, each with key, value and comment, and no
\* exception reaches the caller.
C24_AtMostThreeAttempts ==
  (pc \in {"invoke", "parse", "llm_done"} /\ llm.trace # <<>>) =>
    /\ Cardinality(InvokePositions) <= 3
    /\ \A i \in InvokePositions :
         LET k == llm.trace[i].arg
         IN  /\ k \in 0..2
             /\ k > 0 =>
                  /\ llm.outcomes[k].raised
                  /\ llm.trace[i - 1] = Sleep(IF k = 1 THEN 5 ELSE 10)
                  /\ llm.trace[i - 2] = Invoked(k - 1)
             /\ ~llm.outcomes[k + 1].raised => \A j \in InvokePositions : j <= i
    /\ pc = "parse" =>
         \E i \in InvokePositions : ~llm.outcomes[llm.trace[i].arg + 1].raised
    /\ LlmDone =>
         /\ ~llm.result.raised
         /\ AllAttemptsRaise =>
              /\ Cardinality(InvokePositions) = 3
              /\ llm.result.value = extract_with_llm_mistral_mock(llm.text, llm.keys)
              /\ \A r \in 1..Len(llm.result.value) :
                   DOMAIN llm.result.value[r] = {"key", "value", "comment"}

\* three attempts raised and the fallback found a value for a key
C24_Witness ==
  /\ LlmDone
  /\ AllAttemptsRaise
  /\ llm.trace = <<Sleep(2), Invoked(0), Sleep(5), Invoked(1), Sleep(10), Invoked(2)>>
  /\ ~llm.result.raised
  /\ Len(llm.result.value) = 2
  /\ llm.result.value[1] = [key |-> KeyA, value |-> <<"a">>, comment |-> HeuristicMatch]

(***************************************************************************)
(* evaluation/evaluate.py: evaluate_exact_match                            *)
(***************************************************************************)
\* (a or '').strip() == (b or '').strip()
exact_match(a, b) == Strip(TextOrEmpty(a)) = Strip(TextOrEmpty(b))

\* SequenceMatcher(None, a or '', b or '').ratio()
similarity(a, b) == SequenceRatio(TextOrEmpty(a), TextOrEmpty(b))

\* { (g['key'] or '').strip(): g for g in gold }
RECURSIVE GoldByKey(_, _)
GoldByKey(rows, acc) ==
  IF rows = <<>> THEN acc
  ELSE GoldByKey(Tail(rows), DictSet(acc, Strip(TextOrEmpty(Head(rows).key)), Head(rows)))

\* one turn of the loop over pred: the report with the row of p appended
MatchOne(gold_by_key, rep, p) ==
  LET k == Strip(TextOrEmpty(p.key))
      v == TextOrEmpty(p.value)
      found == DictHas(gold_by_key, k)
      gold_value == IF found THEN DictGet(gold_by_key, k).value ELSE None
  IN  IF found /\ exact_match(gold_value, v)
      THEN [rep EXCEPT
              !.matches = rep.matches + 1,
              !.rows = Append(rep.rows,
                         [key |-> k, pred_value |-> v, gold_value |-> gold_value,
                          exact |-> TRUE])]
      ELSE [rep EXCEPT
              !.rows = Append(rep.rows,
                         [key |-> k, pred_value |-> v, gold_value |-> gold_value,
                          exact |-> FALSE,
                          similarity |-> similarity(IF found THEN gold_value ELSE <<>>, v)])]

RECURSIVE MatchAll(_, _, _)
MatchAll(gold_by_key, rep, rows) ==
  IF rows = <<>> THEN rep
  ELSE MatchAll(gold_by_key, MatchOne(gold_by_key, rep, Head(rows)), Tail(rows))

evaluate_exact_match(gold_rows, pred_rows) ==
  LET rep == MatchAll(GoldByKey(gold_rows, <<>>),
                      [total_gold |-> Len(gold_rows), total_pred |-> Len(pred_rows),
                       matches |-> 0, rows |-> <<>>],
                      pred_rows)
  IN  [total_gold |-> rep.total_gold, total_pred |-> rep.total_pred,
       matches |-> rep.matches, rows |-> rep.rows,
       exact_match_rate |-> RatioUnguarded(rep.matches, Max(1, rep.total_gold))]

MatchRows ==
  [key : {KeyA, <<"A", " ">>, KeyD}, value : {None, <<"a">>}]
    \cup {[key |-> KeyA, value |-> <<"a", " ">>]}

InitExactMatch ==
  /\ pc = "evaluate_exact_match"
  /\ gold \in {Gold(rows) : rows \in ListsUpTo(MatchRows, MaxGold)}
  /\ pred \in ListsUpTo(MatchRows, MaxExtracted)
  /\ match_report = None
  /\ document = None /\ scan_result = None /\ run = None /\ llm = None
  /\ JobIdle /\ FormatIdle
  /\ ref = None /\ hyp = None /\ n_max = 0 /\ report = NoReport
  /\ reference = None /\ hypothesis = None /\ n_gram_max = 0
  /\ weights = NoWeights /\ preserve_case = FALSE /\ bleu = None
  /\ extracted = <<>> /\ now = 0 /\ eval_result = None
  /\ eval_prev = None

EvaluateExactMatch ==
  /\ pc = "evaluate_exact_match"
  /\ match_report' = evaluate_exact_match(gold.rows, pred)
  /\ pc' = "evaluate_exact_match_done"
  /\ UNCHANGED <<document, scan_result, run, llm, pred,
                 ngramVars, bleuVars, evalVars, formatVars, jobVars>>

NextExactMatch == EvaluateExactMatch

SpecExactMatch == InitExactMatch /\ [][NextExactMatch]_vars

ExactMatchDone == pc = "evaluate_exact_match_done"

\* C25: for every gold list and prediction list the report has
\* matches <= total_gold, 0 <= exact_match_rate <= 1, and matches equal to
\* the number of rows flagged exact.
C25_MatchesWithinGold ==
  ExactMatchDone =>
    /\ match_report.matches <= match_report.total_gold
    /\ match_report.exact_match_rate.num >= 0
    /\ match_report.exact_match_rate.num <= match_report.exact_match_rate.den
    /\ match_report.matches =
         Cardinality({i \in 1..Len(match_report.rows) : match_report.rows[i].exact})

====
